---------------------------- MODULE Spec2Model ----------------------------
(***************************************************************************)
(* A model of the shot classification and aggregation engine of            *)
(* nba-shot-charts: the class ShotChart (src/classes/shotchart.py), the    *)
(* court constants (src/enums/court_dimensions.py) and the dispatcher      *)
(* process_shot_data (src/helpers/shotchart_utils.py).                     *)
(*                                                                         *)
(* Strings that the code searches with `in` are sequences of words, so     *)
(* that a substring test is a search for a contiguous run of words; no     *)
(* word of the model holds a searched pattern as a proper part.            *)
(* Quotients are kept as reduced fractions <<n, d>>; <<0, 0>> is NaN and   *)
(* <<1, 0>> is inf, the values numpy gives for a division by zero.         *)
(***************************************************************************)
EXTENDS Integers, Sequences, FiniteSets, TLC

VARIABLES
    df,               \* the batch of shot records handed to every pass
    pc,               \* "ctor", "run", "ready" or "fault"
    todo,             \* passes the constructor still has to run (lines 72-83)
    caller,           \* who called the running pass: "ctor" or "psd"
    pass,             \* the running pass
    i,                \* rows the running loop has consumed
    key,              \* the loop's local `key` / `event_type` after the last row
    fault,            \* the exception that ended the program and the line that raised it
    ret,              \* what the last completed call returned
    calls,            \* calls of process_shot_data so far
    runs,             \* how often each pass has been started
    shots_missed, shots_made,
    two_points, three_points, total_points,
    zone,             \* the fourteen zone accumulators, by attribute name
    shot_types, shot_breakdowns, shot_distances, shot_periods

vars == <<df, pc, todo, caller, pass, i, key, fault, ret, calls, runs,
          shots_missed, shots_made, two_points, three_points, total_points,
          zone, shot_types, shot_breakdowns, shot_distances, shot_periods>>

chart == <<shots_missed, shots_made, two_points, three_points, total_points,
           zone, shot_types, shot_breakdowns, shot_distances, shot_periods>>

-----------------------------------------------------------------------------
(* Bounds of the model *)

MaxBatch == 2

MaxCalls == 1

MaxFlags == 1

-----------------------------------------------------------------------------
(* Numbers *)

RECURSIVE GCD(_, _)
GCD(a, b) == IF b = 0 THEN a ELSE GCD(b, a % b)

NaN == <<0, 0>>

Inf == <<1, 0>>

Zero == <<0, 1>>

One == <<1, 1>>

\* n / d for non-negative integers, as numpy divides (no exception)
Quot(n, d) ==
    IF d = 0 THEN (IF n = 0 THEN NaN ELSE Inf)
    ELSE LET g == GCD(n, d) IN <<n \div g, d \div g>>

FracAdd(p, q) ==
    IF p[2] = 0 \/ q[2] = 0 THEN NaN
    ELSE Quot(p[1] * q[2] + q[1] * p[2], p[2] * q[2])

FracLE(p, q) == p[2] # 0 /\ q[2] # 0 /\ p[1] * q[2] <= q[1] * p[2]

-----------------------------------------------------------------------------
(* Court dimensions.  CourtDimensions is an IntEnum, so every member is    *)
(* int(value): 142.5 is 142, -47.5 is -47, 422.5 is 422 and the radius     *)
(* 74 + 193600/1184 = 237.51... is 237.                                    *)

CORNER3_Y == 90

CORNER3_X == 220

OUTER_PAINT == 80

INNER_PAINT == 60

FREE_THROW_LINE == 142

SIDE_BOUNDARY == 250

FRONTCOURT_BOUNDARY == -47

BACKBOARD == -30

DEEP3_Y == 300

DEEP3_X == 100

RIGHT_WING_3 == 125

HALFCOURT_BOUNDARY == 422

\* int(((238-90)/2) + (440**2)/(8*(238-90))), the sum taken over 8*(238-90)
RADIUS_3ARC == (4 * (238 - 90) * (238 - 90) + 440 * 440) \div (8 * (238 - 90))

-----------------------------------------------------------------------------
(* Strings *)

\* Python's `pat in s` on strings, over words
Contains(s, pat) ==
    \E j \in 1..(Len(s) - Len(pat) + 1) : SubSeq(s, j, j + Len(pat) - 1) = pat

MadeShot == <<"Made", "Shot">>

MissedShot == <<"Missed", "Shot">>

TwoPT == <<"2PT", "Field", "Goal">>

ThreePT == <<"3PT", "Field", "Goal">>

JumpShot == <<"Jump", "Shot">>

-----------------------------------------------------------------------------
(* Records of the batch (the columns the passes read) *)

Row(ev, st, act, x, y, dist, per, mf, af) ==
    [EVENT_TYPE |-> ev, SHOT_TYPE |-> st, ACTION_TYPE |-> act,
     LOC_X |-> x, LOC_Y |-> y, SHOT_DISTANCE |-> dist, PERIOD |-> per,
     SHOT_MADE_FLAG |-> mf, SHOT_ATTEMPTED_FLAG |-> af]

RECURSIVE SumCol(_, _)
\* Series.sum() of the 0/1 column named col
SumCol(rows, col) ==
    IF rows = <<>> THEN 0 ELSE Head(rows)[col] + SumCol(Tail(rows), col)

-----------------------------------------------------------------------------
(* StatRecords and tables *)

\* dict.fromkeys(field_goal_keys, 0)
ZeroRecord ==
    [made |-> 0, missed |-> 0, attempted |-> 0, percent |-> Zero, frequency |-> Zero]

\* the integer 0 that OrderedDict.fromkeys(..., 0) seeds a bucket with
IntZero == [int |-> 0]

\* a dict: its keys in insertion order and its values
EmptyTable == [keys |-> <<>>, val |-> <<>>]

Has(t, k) == \E j \in 1..Len(t.keys) : t.keys[j] = k

Get(t, k) == t.val[CHOOSE j \in 1..Len(t.keys) : t.keys[j] = k]

Put(t, k, v) ==
    IF Has(t, k)
    THEN [t EXCEPT !.val[CHOOSE j \in 1..Len(t.keys) : t.keys[j] = k] = v]
    ELSE [keys |-> Append(t.keys, k), val |-> Append(t.val, v)]

\* OrderedDict.fromkeys(ks, 0)
FromKeys(ks) == [keys |-> ks, val |-> [j \in 1..Len(ks) |-> IntZero]]

Distances == <<"0 - 5", "5 - 10", "10 - 15", "15 - 20", "20 - 25", "25 - 30", "30+">>

Periods == <<1, 2, 3, 4>>


-----------------------------------------------------------------------------
(* process_shots_by_mode: the label of a row *)

\* TypeKey with the two tests in the other order
TypeKeyDunkFirst(row) ==
    IF Contains(row.ACTION_TYPE, <<"Dunk">>) THEN <<"Dunk">>
    ELSE IF Contains(row.ACTION_TYPE, <<"Layup">>) THEN <<"Layup">>
    ELSE row.SHOT_TYPE

\* mode "type"
TypeKey(row) ==
    IF Contains(row.ACTION_TYPE, <<"Layup">>) THEN <<"Layup">>
    ELSE IF Contains(row.ACTION_TYPE, <<"Dunk">>) THEN <<"Dunk">>
    ELSE row.SHOT_TYPE

\* `distance in range(lo, hi)` for an integer distance
InRange(d, lo, hi) == lo <= d /\ d < hi

\* mode "distance"
DistanceKey(row) ==
    LET d == row.SHOT_DISTANCE IN
    IF InRange(d, 0, 5) THEN "0 - 5"
    ELSE IF InRange(d, 5, 10) THEN "5 - 10"
    ELSE IF InRange(d, 10, 15) THEN "10 - 15"
    ELSE IF InRange(d, 15, 20) THEN "15 - 20"
    ELSE IF InRange(d, 20, 25) THEN "20 - 25"
    ELSE IF InRange(d, 25, 30) THEN "25 - 30"
    ELSE "30+"

\* BreakdownKey with the Layup test moved in front of the Dunk test
BreakdownKeyLayupFirst(row) ==
    LET a == row.ACTION_TYPE
        st == row.SHOT_TYPE
    IN
    IF a = JumpShot /\ st = TwoPT THEN <<"Jump", "Shot", "Mid-Range">>
    ELSE IF a = JumpShot /\ st = ThreePT THEN <<"Jump", "Shot", "3PT">>
    ELSE IF Contains(a, <<"Layup">>) THEN <<"Layup">>
    ELSE IF Contains(a, <<"Dunk">>) THEN <<"Dunk">>
    ELSE IF Contains(a, <<"Floating">>) THEN <<"Floater">>
    ELSE IF Contains(a, <<"Hook", "Shot">>) THEN <<"Hook", "Shot">>
    ELSE IF Contains(a, <<"Fadeaway">>) /\ st = TwoPT THEN <<"Fadeaway", "Mid-Range">>
    ELSE IF Contains(a, <<"Fadeaway">>) /\ st = ThreePT THEN <<"Fadeaway", "3PT">>
    ELSE IF (Contains(a, <<"Pullup">>) \/ Contains(a, <<"Pull-Up">>)) /\ st = TwoPT
         THEN <<"Pullup", "Mid-Range">>
    ELSE IF (Contains(a, <<"Pullup">>) \/ Contains(a, <<"Pull-Up">>)) /\ st = ThreePT
         THEN <<"Pullup", "3PT">>
    ELSE IF Contains(a, <<"Step", "Back">>) /\ st = TwoPT THEN <<"Step", "Back", "Mid-Range">>
    ELSE IF Contains(a, <<"Step", "Back">>) /\ st = ThreePT THEN <<"Step", "Back", "3PT">>
    ELSE a

\* mode "breakdown"
BreakdownKey(row) ==
    LET a == row.ACTION_TYPE
        st == row.SHOT_TYPE
    IN
    IF a = JumpShot /\ st = TwoPT THEN <<"Jump", "Shot", "Mid-Range">>
    ELSE IF a = JumpShot /\ st = ThreePT THEN <<"Jump", "Shot", "3PT">>
    ELSE IF Contains(a, <<"Dunk">>) THEN <<"Dunk">>
    ELSE IF Contains(a, <<"Floating">>) THEN <<"Floater">>
    ELSE IF Contains(a, <<"Hook", "Shot">>) THEN <<"Hook", "Shot">>
    ELSE IF Contains(a, <<"Fadeaway">>) /\ st = TwoPT THEN <<"Fadeaway", "Mid-Range">>
    ELSE IF Contains(a, <<"Fadeaway">>) /\ st = ThreePT THEN <<"Fadeaway", "3PT">>
    ELSE IF (Contains(a, <<"Pullup">>) \/ Contains(a, <<"Pull-Up">>)) /\ st = TwoPT
         THEN <<"Pullup", "Mid-Range">>
    ELSE IF (Contains(a, <<"Pullup">>) \/ Contains(a, <<"Pull-Up">>)) /\ st = ThreePT
         THEN <<"Pullup", "3PT">>
    ELSE IF Contains(a, <<"Step", "Back">>) /\ st = TwoPT THEN <<"Step", "Back", "Mid-Range">>
    ELSE IF Contains(a, <<"Step", "Back">>) /\ st = ThreePT THEN <<"Step", "Back", "3PT">>
    ELSE IF Contains(a, <<"Layup">>) THEN <<"Layup">>
    ELSE a

\* any other mode ("period"): key, event_type = row[:2]
PeriodKey(row) == row.PERIOD

ModeKey(mode, row) ==
    CASE mode = "type" -> TypeKey(row)
      [] mode = "distance" -> DistanceKey(row)
      [] mode = "breakdown" -> BreakdownKey(row)
      [] OTHER -> PeriodKey(row)

-----------------------------------------------------------------------------
(* process_shots_by_mode: the update of one row (lines 377-390) *)

\* ModeInit that gives the label a zeroed record whatever it holds
ModeInitAlways(t, k) == Put(t, k, ZeroRecord)

\* lines 378-380: a label that is absent or still the integer 0 gets a zeroed record
ModeInit(t, k) ==
    IF ~Has(t, k) \/ Get(t, k) = IntZero THEN Put(t, k, ZeroRecord) ELSE t

\* lines 383-386
ModeCount(rec, ev) ==
    IF ev = MadeShot THEN [rec EXCEPT !.made = @ + 1]
    ELSE IF ev = MissedShot THEN [rec EXCEPT !.missed = @ + 1]
    ELSE rec

\* ModeAttempted that forgets the missed shots
ModeAttemptedOfMade(rec) == [rec EXCEPT !.attempted = rec.made]

\* line 389
ModeAttempted(rec) == [rec EXCEPT !.attempted = rec.made + rec.missed]

\* ModePercent that leaves percent as it was
ModePercentStale(rec) == rec

\* line 390, when it does not raise
ModePercent(rec) == [rec EXCEPT !.percent = Quot(rec.made, rec.attempted)]

\* line 390 divides two Python ints: ZeroDivisionError when attempted is 0
ModeRaises(t, k, ev) ==
    LET rec == ModeAttempted(ModeCount(Get(ModeInit(t, k), k), ev))
    IN rec.attempted = 0

\* the table after the row (k, ev); when line 390 raises, percent is not written
ModeUpdate(t, k, ev) ==
    LET t1 == ModeInit(t, k)
        rec == ModeAttempted(ModeCount(Get(t1, k), ev))
    IN Put(t1, k, IF rec.attempted = 0 THEN rec ELSE ModePercent(rec))

-----------------------------------------------------------------------------
(* process_column_frequency (lines 392-400) *)

RECURSIVE ColumnFrequencyFrom(_, _, _)
\* the loop from the j-th key on; it stops where a value is the integer 0
\* (0["attempted"] raises TypeError)
ColumnFrequencyFrom(t, j, total) ==
    IF j > Len(t.keys) \/ t.val[j] = IntZero THEN t
    ELSE ColumnFrequencyFrom(
             [t EXCEPT !.val[j].frequency = Quot(t.val[j].attempted, total)],
             j + 1, total)

RECURSIVE FrequencyOfMadeFrom(_, _, _)
FrequencyOfMadeFrom(t, j, total) ==
    IF j > Len(t.keys) \/ t.val[j] = IntZero THEN t
    ELSE FrequencyOfMadeFrom(
             [t EXCEPT !.val[j].frequency = Quot(t.val[j].made, total)],
             j + 1, total)

\* process_column_frequency that divides made, not attempted, by the total
FrequencyOfMade(t, total) == FrequencyOfMadeFrom(t, 1, total)

RECURSIVE AttemptsFrom(_, _)
\* the attempts the table counts from the j-th key on
AttemptsFrom(t, j) ==
    IF j > Len(t.keys) THEN 0
    ELSE (IF t.val[j] = IntZero THEN 0 ELSE t.val[j].attempted) + AttemptsFrom(t, j + 1)

\* process_column_frequency that divides by the attempts the table counts, not
\* by the total it is given
FrequencyOverCounted(t, total) == ColumnFrequencyFrom(t, 1, AttemptsFrom(t, 1))

process_column_frequency(t, total) == ColumnFrequencyFrom(t, 1, total)

\* the loop meets a value that is the integer 0
FrequencyTypeError(t) == \E j \in 1..Len(t.keys) : t.val[j] = IntZero

\* the loop divides by a zero total
FrequencyDividesByZero(t, total) == total = 0 /\ Len(t.keys) > 0

-----------------------------------------------------------------------------
(* is_shot_inside_3pt_arc (lines 402-432).  The angle is                   *)
(* degrees(atan(y / x)), plus 180 when negative, and 90 when x = 0.  Its   *)
(* comparisons with 22 and 158 are comparisons of y / x with tan(22 deg)   *)
(* = 0.404026..., decided here over the integers with TanNum / TanDen.     *)

TanNum == 40403

TanDen == 100000

Abs(n) == IF n < 0 THEN -n ELSE n

\* y / x < 0, for x # 0
NegativeSlope(x, y) == (y < 0 /\ x > 0) \/ (y > 0 /\ x < 0)

\* |y / x| >= tan(22 deg)
SteepSlope(x, y) == Abs(y) * TanDen >= TanNum * Abs(x)

\* angle >= bound, for the bounds the callers pass (22 and 158)
AngleGE(x, y, bound) ==
    IF x = 0 THEN 90 >= bound
    ELSE IF bound = 22 THEN NegativeSlope(x, y) \/ SteepSlope(x, y)
    ELSE NegativeSlope(x, y) /\ ~SteepSlope(x, y)

\* angle <= bound, for the bounds the callers pass (158 and 22)
AngleLE(x, y, bound) ==
    IF x = 0 THEN 90 <= bound
    ELSE IF bound = 158 THEN ~NegativeSlope(x, y) \/ SteepSlope(x, y)
    ELSE ~NegativeSlope(x, y) /\ ~SteepSlope(x, y)

\* sqrt(x*x + y*y) < RADIUS_3ARC
InsideRadius(x, y) == x * x + y * y < RADIUS_3ARC * RADIUS_3ARC

\* is_shot_inside_3pt_arc without the test of the angle
InsideRadiusOnly(x, y, start_angle, end_angle) == InsideRadius(x, y)

is_shot_inside_3pt_arc(x, y, start_angle, end_angle) ==
    AngleGE(x, y, start_angle) /\ AngleLE(x, y, end_angle) /\ InsideRadius(x, y)

-----------------------------------------------------------------------------
(* process_shots_by_zones (lines 116-227) *)

ZoneNames ==
    {"right_corner_3", "left_corner_3", "paint", "right_block", "left_block",
     "high_post", "right_elbow", "left_elbow", "right_wing_3", "left_wing_3",
     "top_of_key_3", "straight_deep_3", "right_deep_3", "left_deep_3"}

\* the branches of the if/elif chain, in its order
ZoneOrder ==
    <<"right_corner_3", "left_corner_3", "paint", "right_block", "left_block",
      "high_post", "right_elbow", "left_elbow", "right_wing_3", "left_wing_3",
      "top_of_key_3", "straight_deep_3", "right_deep_3", "left_deep_3">>

\* the condition of the branch of the accumulator n, taken by itself
ZoneTest(n, x, y) ==
    CASE n = "right_corner_3" ->
            (x > -SIDE_BOUNDARY /\ x < -CORNER3_X) /\ (y < CORNER3_Y /\ y > FRONTCOURT_BOUNDARY)
      [] n = "left_corner_3" ->
            (x < SIDE_BOUNDARY /\ x > CORNER3_X) /\ (y < CORNER3_Y /\ y > FRONTCOURT_BOUNDARY)
      [] n = "paint" ->
            (x > -OUTER_PAINT /\ x < OUTER_PAINT)
                /\ (y < FREE_THROW_LINE /\ y > FRONTCOURT_BOUNDARY)
      [] n = "right_block" ->
            (x > -220 /\ x < -OUTER_PAINT) /\ (y < CORNER3_Y /\ y > FRONTCOURT_BOUNDARY)
      [] n = "left_block" ->
            (y < 219 /\ y < OUTER_PAINT) /\ (y < CORNER3_Y /\ y > FRONTCOURT_BOUNDARY)
      [] n = "high_post" ->
            x > -OUTER_PAINT /\ x < OUTER_PAINT /\ y > FREE_THROW_LINE
                /\ is_shot_inside_3pt_arc(x, y, 22, 158)
      [] n = "right_elbow" ->
            x < -OUTER_PAINT /\ y > CORNER3_Y /\ is_shot_inside_3pt_arc(x, y, 22, 158)
      [] n = "left_elbow" ->
            x > OUTER_PAINT /\ y > CORNER3_Y /\ is_shot_inside_3pt_arc(x, y, 22, 158)
      [] n = "right_wing_3" ->
            x < -RIGHT_WING_3 /\ x > -SIDE_BOUNDARY /\ y > CORNER3_Y /\ y < DEEP3_Y
                /\ ~is_shot_inside_3pt_arc(x, y, 158, 22)
      [] n = "left_wing_3" ->
            x > RIGHT_WING_3 /\ x < SIDE_BOUNDARY /\ y > CORNER3_Y /\ y < DEEP3_Y
                /\ ~is_shot_inside_3pt_arc(x, y, 158, 22)
      [] n = "top_of_key_3" ->
            x > -RIGHT_WING_3 /\ x < RIGHT_WING_3 /\ y < DEEP3_Y
                /\ ~is_shot_inside_3pt_arc(x, y, 22, 158)
      [] n = "straight_deep_3" ->
            (x > DEEP3_Y /\ x < HALFCOURT_BOUNDARY) /\ (y > -SIDE_BOUNDARY /\ y < -DEEP3_X)
      [] n = "right_deep_3" ->
            (y > -SIDE_BOUNDARY /\ y < -DEEP3_X) /\ (x > DEEP3_Y /\ x < HALFCOURT_BOUNDARY)
      [] n = "left_deep_3" ->
            (y < SIDE_BOUNDARY /\ y > DEEP3_X) /\ (x > DEEP3_Y /\ x < HALFCOURT_BOUNDARY)
      [] OTHER -> FALSE

\* the branch of the if/elif chain a coordinate takes, "none" when it takes none
ZoneOf(x, y) ==
    IF (x > -SIDE_BOUNDARY /\ x < -CORNER3_X) /\ (y < CORNER3_Y /\ y > FRONTCOURT_BOUNDARY)
        THEN "right_corner_3"
    ELSE IF (x < SIDE_BOUNDARY /\ x > CORNER3_X) /\ (y < CORNER3_Y /\ y > FRONTCOURT_BOUNDARY)
        THEN "left_corner_3"
    ELSE IF (x > -OUTER_PAINT /\ x < OUTER_PAINT)
            /\ (y < FREE_THROW_LINE /\ y > FRONTCOURT_BOUNDARY)
        THEN "paint"
    ELSE IF (x > -220 /\ x < -OUTER_PAINT) /\ (y < CORNER3_Y /\ y > FRONTCOURT_BOUNDARY)
        THEN "right_block"
    ELSE IF (y < 219 /\ y < OUTER_PAINT) /\ (y < CORNER3_Y /\ y > FRONTCOURT_BOUNDARY)
        THEN "left_block"
    ELSE IF x > -OUTER_PAINT /\ x < OUTER_PAINT /\ y > FREE_THROW_LINE
            /\ is_shot_inside_3pt_arc(x, y, 22, 158)
        THEN "high_post"
    ELSE IF x < -OUTER_PAINT /\ y > CORNER3_Y /\ is_shot_inside_3pt_arc(x, y, 22, 158)
        THEN "right_elbow"
    ELSE IF x > OUTER_PAINT /\ y > CORNER3_Y /\ is_shot_inside_3pt_arc(x, y, 22, 158)
        THEN "left_elbow"
    ELSE IF x < -RIGHT_WING_3 /\ x > -SIDE_BOUNDARY /\ y > CORNER3_Y /\ y < DEEP3_Y
            /\ ~is_shot_inside_3pt_arc(x, y, 158, 22)
        THEN "right_wing_3"
    ELSE IF x > RIGHT_WING_3 /\ x < SIDE_BOUNDARY /\ y > CORNER3_Y /\ y < DEEP3_Y
            /\ ~is_shot_inside_3pt_arc(x, y, 158, 22)
        THEN "left_wing_3"
    ELSE IF x > -RIGHT_WING_3 /\ x < RIGHT_WING_3 /\ y < DEEP3_Y
            /\ ~is_shot_inside_3pt_arc(x, y, 22, 158)
        THEN "top_of_key_3"
    ELSE IF (x > DEEP3_Y /\ x < HALFCOURT_BOUNDARY) /\ (y > -SIDE_BOUNDARY /\ y < -DEEP3_X)
        THEN "straight_deep_3"
    ELSE IF (y > -SIDE_BOUNDARY /\ y < -DEEP3_X) /\ (x > DEEP3_Y /\ x < HALFCOURT_BOUNDARY)
        THEN "right_deep_3"
    ELSE IF (y < SIDE_BOUNDARY /\ y > DEEP3_X) /\ (x > DEEP3_Y /\ x < HALFCOURT_BOUNDARY)
        THEN "left_deep_3"
    ELSE "none"

\* line 124: key = "made" if "Made" in row.EVENT_TYPE else "missed"
ZoneKey(row) == IF Contains(row.EVENT_TYPE, <<"Made">>) THEN "made" ELSE "missed"

\* the three assignments of a branch: count, attempted, percent
ZoneUpdate(rec, k) ==
    LET r1 == IF k = "made" THEN [rec EXCEPT !.made = @ + 1]
              ELSE [rec EXCEPT !.missed = @ + 1]
        r2 == [r1 EXCEPT !.attempted = r1.made + r1.missed]
    IN [r2 EXCEPT !.percent = Quot(r2.made, r2.attempted)]

\* ZoneRow with a default bucket: a row that takes no branch is counted in the
\* last accumulator
ZoneRowWithDefault(z, row) ==
    LET n == ZoneOf(row.LOC_X, row.LOC_Y)
        m == IF n = "none" THEN ZoneOrder[Len(ZoneOrder)] ELSE n
    IN [z EXCEPT ![m] = ZoneUpdate(z[m], ZoneKey(row))]

\* ZoneRow with `if` in place of `elif`: a row is counted in every accumulator
\* whose condition it meets
ZoneRowEveryMatch(z, row) ==
    [n \in ZoneNames |->
        IF ZoneTest(n, row.LOC_X, row.LOC_Y) THEN ZoneUpdate(z[n], ZoneKey(row)) ELSE z[n]]

\* the accumulators after one row
ZoneRow(z, row) ==
    LET n == ZoneOf(row.LOC_X, row.LOC_Y) IN
    IF n = "none" THEN z ELSE [z EXCEPT ![n] = ZoneUpdate(z[n], ZoneKey(row))]

-----------------------------------------------------------------------------
(* process_shots_by_points (lines 85-114) *)

\* an exception and the line of shotchart.py that raised it
Exception(name, line) == [name |-> name, line |-> line]

NoException == [name |-> "none", line |-> 0]

OtherShotType == <<"Free", "Throw">>

\* the order in which groupby('SHOT_TYPE') lists the shot types (sorted keys)
SortedShotTypes == <<TwoPT, ThreePT, OtherShotType>>

OfShotType(rows, st) == SelectSeq(rows, LAMBDA r : r.SHOT_TYPE = st)

\* shotchart_df["SHOT_TYPE"].unique() holds st
TypePresent(rows, st) == \E j \in 1..Len(rows) : rows[j].SHOT_TYPE = st

\* the index of groupby('SHOT_TYPE')[col].sum()
Groups(rows) == SelectSeq(SortedShotTypes, LAMBDA st : TypePresent(rows, st))

\* groupby('SHOT_TYPE')[col].sum()[n], n counted from 0: the n-th group by position
GroupSum(rows, col, n) == SumCol(OfShotType(rows, Groups(rows)[n + 1]), col)

\* lines 92-93
MissedSubset(rows) == [rows |-> SelectSeq(rows, LAMBDA r : r.SHOT_MADE_FLAG = 1)]

MadeSubset(rows) == [rows |-> SelectSeq(rows, LAMBDA r : r.SHOT_MADE_FLAG = 0)]

\* lines 97-99 and 103-105: made, attempted and percent of the n-th group
PointsBucket(rec, rows, n) ==
    LET m == GroupSum(rows, "SHOT_MADE_FLAG", n)
        a == GroupSum(rows, "SHOT_ATTEMPTED_FLAG", n)
    IN [rec EXCEPT !.made = m, !.attempted = a, !.percent = Quot(m, a)]

\* the same when the division raises: percent keeps its old value
PointsBucketRaised(rec, rows, n) ==
    [rec EXCEPT !.made = GroupSum(rows, "SHOT_MADE_FLAG", n),
                !.attempted = GroupSum(rows, "SHOT_ATTEMPTED_FLAG", n)]

\* lines 108-110
PointsTotal(rec, rows) ==
    LET m == SumCol(rows, "SHOT_MADE_FLAG")
        a == SumCol(rows, "SHOT_ATTEMPTED_FLAG")
    IN [rec EXCEPT !.made = m, !.attempted = a, !.percent = Quot(m, a)]

PointsTotalRaised(rec, rows) ==
    [rec EXCEPT !.made = SumCol(rows, "SHOT_MADE_FLAG"),
                !.attempted = SumCol(rows, "SHOT_ATTEMPTED_FLAG")]

\* lines 113-114
PointsFrequency(rec, total) ==
    [rec EXCEPT !.frequency = Quot(rec.attempted, total.attempted)]

\* The whole pass.  np: the column sums are numpy integers, whose division by
\* zero gives nan or inf; otherwise they are Python ints and it raises.
\* The result: the three records and the exception ("none" when none).
Points(two, three, total, rows, np) ==
    LET has2 == TypePresent(rows, TwoPT)
        has3 == TypePresent(rows, ThreePT)
        raise2 == has2 /\ ~np /\ GroupSum(rows, "SHOT_ATTEMPTED_FLAG", 0) = 0
        two1 == IF ~has2 THEN two
                ELSE IF raise2 THEN PointsBucketRaised(two, rows, 0)
                ELSE PointsBucket(two, rows, 0)
        index3 == has3 /\ Len(Groups(rows)) < 2
        raise3 == has3 /\ ~index3 /\ ~np /\ GroupSum(rows, "SHOT_ATTEMPTED_FLAG", 1) = 0
        three1 == IF ~has3 \/ index3 THEN three
                  ELSE IF raise3 THEN PointsBucketRaised(three, rows, 1)
                  ELSE PointsBucket(three, rows, 1)
        raiseT == ~np /\ SumCol(rows, "SHOT_ATTEMPTED_FLAG") = 0
        total1 == IF raiseT THEN PointsTotalRaised(total, rows) ELSE PointsTotal(total, rows)
    IN
    IF raise2 THEN [two |-> two1, three |-> three, total |-> total,
                    fault |-> Exception("ZeroDivisionError", 99)]
    ELSE IF index3 THEN [two |-> two1, three |-> three, total |-> total,
                         fault |-> Exception("IndexError", 103)]
    ELSE IF raise3 THEN [two |-> two1, three |-> three1, total |-> total,
                         fault |-> Exception("ZeroDivisionError", 105)]
    ELSE IF raiseT THEN [two |-> two1, three |-> three1, total |-> total1,
                         fault |-> Exception("ZeroDivisionError", 110)]
    ELSE [two |-> PointsFrequency(two1, total1), three |-> PointsFrequency(three1, total1),
          total |-> total1, fault |-> NoException]

-----------------------------------------------------------------------------
(* The program: the constructor, process_shot_data and the passes *)

\* the order of the constructor's if statements (lines 72-83)
PassOrder == <<"points", "zones", "type", "distance", "period", "breakdown">>

PassNames == {PassOrder[j] : j \in 1..Len(PassOrder)}

ModePasses == {"type", "distance", "period", "breakdown"}

\* the order of process_shot_data's if/elif chain (lines 174-187)
DispatchOrder == <<"points", "type", "distance", "period", "breakdown", "zones">>

\* the pass process_shot_data calls for the set of true arguments, or "none"
Dispatch(args) ==
    IF \E j \in 1..Len(DispatchOrder) : DispatchOrder[j] \in args
    THEN DispatchOrder[CHOOSE j \in 1..Len(DispatchOrder) :
             /\ DispatchOrder[j] \in args
             /\ \A h \in 1..(j - 1) : DispatchOrder[h] \notin args]
    ELSE "none"

\* the passes the constructor runs for the set of true flags: none on an empty batch
CtorPasses(rows, flags) ==
    IF rows = <<>> THEN <<>> ELSE SelectSeq(PassOrder, LAMBDA p : p \in flags)

Table(p) ==
    CASE p = "type" -> shot_types
      [] p = "breakdown" -> shot_breakdowns
      [] p = "distance" -> shot_distances
      [] OTHER -> shot_periods

\* what a process_shots_by_* method returns (lines 247, 267, 287, 307)
Returned(p) ==
    CASE p = "type" -> "shot_types"
      [] p = "breakdown" -> "shot_types"
      [] p = "distance" -> "shot_distances"
      [] p = "period" -> "shot_periods"
      [] OTHER -> "None"

\* lines 26-63: the chart as the constructor sets it up
InitChart ==
    /\ shots_missed = IntZero
    /\ shots_made = IntZero
    /\ two_points = ZeroRecord
    /\ three_points = ZeroRecord
    /\ total_points = ZeroRecord
    /\ zone = [n \in ZoneNames |-> ZeroRecord]
    /\ shot_types = EmptyTable
    /\ shot_breakdowns = EmptyTable
    /\ shot_distances = FromKeys(Distances)
    /\ shot_periods = FromKeys(Periods)

FlagSets == {f \in SUBSET PassNames : Cardinality(f) <= MaxFlags}

\* the constructor at line 65, for a batch of Batches and a set of flags (the
\* game date it parses and the columns it prints are not part of the state)
InitWith(Batches) ==
    /\ df \in Batches
    /\ \E flags \in FlagSets : todo = CtorPasses(df, flags)
    /\ pc = "ctor"
    /\ caller = "ctor"
    /\ pass = "none"
    /\ i = 0
    /\ key = "none"
    /\ fault = NoException
    /\ ret = "unset"
    /\ calls = 0
    /\ runs = [p \in PassNames |-> 0]
    /\ InitChart

\* a call returns r to its caller
Return(r) ==
    /\ ret' = r
    /\ pc' = IF caller = "ctor" THEN "ctor" ELSE "ready"
    /\ fault' = fault

\* an exception leaves the call; nothing catches it
Raise(e) ==
    /\ fault' = e
    /\ pc' = "fault"
    /\ ret' = ret

\* the constructor calls the next requested pass
CtorCall ==
    /\ pc = "ctor" /\ todo # <<>>
    /\ pc' = "run"
    /\ pass' = Head(todo)
    /\ todo' = Tail(todo)
    /\ i' = 0
    /\ runs' = [runs EXCEPT ![Head(todo)] = @ + 1]
    /\ UNCHANGED <<df, caller, key, fault, ret, calls, chart>>

\* the constructor returns
CtorReturn ==
    /\ pc = "ctor" /\ todo = <<>>
    /\ pc' = "ready"
    /\ caller' = "psd"
    /\ UNCHANGED <<df, todo, pass, i, key, fault, ret, calls, runs, chart>>

\* process_shot_data(shotchart, shotchart_df, args), on the batch the chart was
\* constructed with
ProcessShotData ==
    /\ pc = "ready" /\ calls < MaxCalls
    /\ calls' = calls + 1
    /\ \E args \in SUBSET PassNames :
         LET p == Dispatch(args) IN
         IF p = "none"
         THEN /\ ret' = "None"
              /\ UNCHANGED <<pc, pass, i, runs>>
         ELSE /\ pc' = "run"
              /\ pass' = p
              /\ i' = 0
              /\ runs' = [runs EXCEPT ![p] = @ + 1]
              /\ ret' = ret
    /\ UNCHANGED <<df, todo, caller, key, fault, chart>>

\* process_shots_by_points
PointsPass ==
    /\ pc = "run" /\ pass = "points"
    /\ shots_missed' = MissedSubset(df)
    /\ shots_made' = MadeSubset(df)
    /\ \E np \in BOOLEAN :
         LET r == Points(two_points, three_points, total_points, df, np) IN
         /\ two_points' = r.two
         /\ three_points' = r.three
         /\ total_points' = r.total
         /\ IF r.fault = NoException THEN Return("None") ELSE Raise(r.fault)
    /\ UNCHANGED <<df, todo, caller, pass, i, key, calls, runs, zone,
                   shot_types, shot_breakdowns, shot_distances, shot_periods>>

\* one iteration of the loop of process_shots_by_zones
ZoneStep ==
    /\ pc = "run" /\ pass = "zones" /\ i < Len(df)
    /\ zone' = ZoneRow(zone, df[i + 1])
    /\ key' = ZoneKey(df[i + 1])
    /\ i' = i + 1
    /\ UNCHANGED <<df, pc, todo, caller, pass, fault, ret, calls, runs,
                   shots_missed, shots_made, two_points, three_points, total_points,
                   shot_types, shot_breakdowns, shot_distances, shot_periods>>

\* process_shots_by_zones ends with its loop and returns None
ZonesReturn ==
    /\ pc = "run" /\ pass = "zones" /\ i = Len(df)
    /\ Return("None")
    /\ UNCHANGED <<df, todo, caller, pass, i, key, calls, runs, chart>>

\* SetTable when shot_breakdowns is the very dict of shot_types
SetTableAliased(p, t) ==
    /\ shot_types' = IF p \in {"type", "breakdown"} THEN t ELSE shot_types
    /\ shot_breakdowns' = IF p \in {"type", "breakdown"} THEN t ELSE shot_breakdowns
    /\ shot_distances' = IF p = "distance" THEN t ELSE shot_distances
    /\ shot_periods' = IF p = "period" THEN t ELSE shot_periods

\* the four tables with the table of pass p set to t
SetTable(p, t) ==
    /\ shot_types' = IF p = "type" THEN t ELSE shot_types
    /\ shot_breakdowns' = IF p = "breakdown" THEN t ELSE shot_breakdowns
    /\ shot_distances' = IF p = "distance" THEN t ELSE shot_distances
    /\ shot_periods' = IF p = "period" THEN t ELSE shot_periods

\* one iteration of the loop of process_shots_by_mode
ModeStep ==
    /\ pc = "run" /\ pass \in ModePasses /\ i < Len(df)
    /\ LET row == df[i + 1]
           k == ModeKey(pass, row)
       IN /\ key' = k
          /\ SetTable(pass, ModeUpdate(Table(pass), k, row.EVENT_TYPE))
          /\ i' = i + 1
          /\ IF ModeRaises(Table(pass), k, row.EVENT_TYPE)
             THEN Raise(Exception("ZeroDivisionError", 390))
             ELSE UNCHANGED <<pc, fault, ret>>
    /\ UNCHANGED <<df, todo, caller, pass, calls, runs, zone,
                   shots_missed, shots_made, two_points, three_points, total_points>>

\* after the loop: total_shots, process_column_frequency and the return
\* (lines 242-247 and their copies).  np as in Points.
ColumnFrequency ==
    /\ pc = "run" /\ pass \in ModePasses /\ i = Len(df)
    /\ LET t == Table(pass)
           total_shots == SumCol(df, "SHOT_ATTEMPTED_FLAG")
       IN \E np \in BOOLEAN :
            IF ~np /\ FrequencyDividesByZero(t, total_shots) /\ t.val[1] # IntZero
            THEN SetTable(pass, t) /\ Raise(Exception("ZeroDivisionError", 400))
            ELSE /\ SetTable(pass, process_column_frequency(t, total_shots))
                 /\ IF FrequencyTypeError(t) THEN Raise(Exception("TypeError", 400))
                    ELSE Return(Returned(pass))
    /\ UNCHANGED <<df, todo, caller, pass, i, key, calls, runs, zone,
                   shots_missed, shots_made, two_points, three_points, total_points>>

Next ==
    \/ CtorCall
    \/ CtorReturn
    \/ ProcessShotData
    \/ PointsPass
    \/ ZoneStep
    \/ ZonesReturn
    \/ ModeStep
    \/ ColumnFrequency

-----------------------------------------------------------------------------
(* Batches and specifications *)

\* the batches of at most n rows of the set Rows
BatchesOf(Rows, n) == UNION {[1..m -> Rows] : m \in 0..n}

\* an event type that is neither "Made Shot" nor "Missed Shot"
Other == <<"Turnover">>

Layup == <<"Driving", "Layup", "Shot">>

SampleRows ==
    {Row(MadeShot, TwoPT, JumpShot, 0, 0, 3, 1, 1, 1),
     Row(MissedShot, TwoPT, JumpShot, 0, 150, 15, 1, 0, 1),
     Row(MissedShot, ThreePT, JumpShot, -230, 50, 23, 2, 0, 1),
     Row(MadeShot, TwoPT, Layup, 10, 20, 2, 1, 1, 1),
     Row(Other, TwoPT, JumpShot, 0, 150, 15, 3, 0, 1),
     Row(MissedShot, ThreePT, JumpShot, 0, 500, 50, 4, 0, 0)}

\* 10 records, 6 made and 4 missed, all 2PT jump shots
ScenarioType ==
    [j \in 1..10 |->
        IF j <= 6 THEN Row(MadeShot, TwoPT, JumpShot, 0, 150, 15, 1, 1, 1)
        ELSE Row(MissedShot, TwoPT, JumpShot, 0, 150, 15, 1, 0, 1)]

\* distances 3, 7, 22, 31 with outcomes made, missed, made, missed
ScenarioDistance ==
    <<Row(MadeShot, TwoPT, JumpShot, 0, 30, 3, 1, 1, 1),
      Row(MissedShot, TwoPT, JumpShot, 0, 70, 7, 2, 0, 1),
      Row(MadeShot, TwoPT, JumpShot, 0, 220, 22, 3, 1, 1),
      Row(MissedShot, ThreePT, JumpShot, 0, 310, 31, 4, 0, 1)>>

\* a batch that touches every distance bucket and every period
ScenarioFull ==
    <<Row(MadeShot, TwoPT, JumpShot, 0, 30, 3, 1, 1, 1),
      Row(MissedShot, TwoPT, JumpShot, 0, 70, 7, 2, 0, 1),
      Row(MadeShot, TwoPT, JumpShot, 0, 120, 12, 3, 1, 1),
      Row(MissedShot, TwoPT, JumpShot, 0, 170, 17, 4, 0, 1),
      Row(MadeShot, TwoPT, JumpShot, 0, 220, 22, 1, 1, 1),
      Row(MissedShot, ThreePT, JumpShot, 0, 270, 27, 2, 0, 1),
      Row(MadeShot, ThreePT, JumpShot, 0, 310, 31, 3, 1, 1)>>

Scenarios == {ScenarioType, ScenarioDistance, ScenarioFull}

Init == InitWith(BatchesOf(SampleRows, MaxBatch) \cup Scenarios)

Spec == Init /\ [][Next]_vars

\* single-row batches over every shot type and a range of actions
TypeActions ==
    {JumpShot, Layup, <<"Driving", "Dunk", "Shot">>,
     <<"Alley", "Oop", "Dunk", "Layup">>, <<"Putback", "Layup", "Dunk">>}

TypeRows ==
    {Row(ev, st, act, 0, 0, 3, 1, IF ev = MadeShot THEN 1 ELSE 0, 1) :
        ev \in {MadeShot, MissedShot}, st \in {TwoPT, ThreePT, OtherShotType},
        act \in TypeActions}

InitType == InitWith(BatchesOf(TypeRows, 1))

SpecType == InitType /\ [][Next]_vars

\* single-row batches over a range of distances
MaxDistance == 32

MaxBelowZero == 2

DistanceRows ==
    {Row(ev, TwoPT, JumpShot, 0, 0, d, 1, IF ev = MadeShot THEN 1 ELSE 0, 1) :
        ev \in {MadeShot, MissedShot}, d \in (0 - MaxBelowZero)..MaxDistance}

InitDistance == InitWith(BatchesOf(DistanceRows, 1))

SpecDistance == InitDistance /\ [][Next]_vars

\* single-row batches over every shot type and actions that meet every rule of
\* the breakdown mode, alone and together
BreakdownActions ==
    {JumpShot, Layup, <<"Driving", "Dunk", "Shot">>,
     <<"Alley", "Oop", "Dunk", "Layup">>, <<"Putback", "Layup", "Dunk">>,
     <<"Driving", "Floating", "Jump", "Shot">>, <<"Floating", "Hook", "Shot">>,
     <<"Turnaround", "Hook", "Shot">>, <<"Turnaround", "Fadeaway", "shot">>,
     <<"Fadeaway", "Pullup", "Layup">>, <<"Pullup", "Jump", "Shot">>,
     <<"Running", "Pull-Up", "Jump", "Shot">>, <<"Pullup", "Step", "Back", "shot">>,
     <<"Step", "Back", "Jump", "Shot">>, <<"Step", "Back", "Layup">>,
     <<"Step", "Dunk", "Back">>, <<"Tip", "Shot">>}

BreakdownRows ==
    {Row(ev, st, act, 0, 0, 3, 1, IF ev = MadeShot THEN 1 ELSE 0, 1) :
        ev \in {MadeShot, MissedShot}, st \in {TwoPT, ThreePT, OtherShotType},
        act \in BreakdownActions}

InitBreakdown == InitWith(BatchesOf(BreakdownRows, 1))

SpecBreakdown == InitBreakdown /\ [][Next]_vars

\* coordinates on and next to the thresholds of the zone tests
ZoneXs ==
    {-250, -249, -221, -220, -219, -126, -125, -124, -81, -80, -79, 79, 80, 81,
     124, 125, 126, 219, 220, 221, 249, 250, 300, 301, 421, 422}

ZoneYs ==
    {-250, -249, -101, -100, -99, -48, -47, -46, 79, 80, 89, 90, 91, 101, 141,
     142, 143, 218, 219, 237, 238, 249, 250, 299, 300}

\* coordinates between the thresholds
ZoneMidXs == {-230, -100, 0, 100, 230, 350}

ZoneMidYs == {-150, 0, 50, 120, 200, 280, 350}

\* the grid: every threshold of one axis at every coordinate between the
\* thresholds of the other
ZoneGrid ==
    ((ZoneXs \cup ZoneMidXs) \X ZoneMidYs) \cup (ZoneMidXs \X (ZoneYs \cup ZoneMidYs))

\* single made shots over the grid
ZoneGridRows ==
    {Row(MadeShot, TwoPT, JumpShot, c[1], c[2], 3, 1, 1, 1) : c \in ZoneGrid}

\* rows of several zones and of none, for the batches of more than one row
ZonePairRows ==
    {Row(MadeShot, TwoPT, JumpShot, 0, 0, 0, 1, 1, 1),
     Row(MissedShot, TwoPT, JumpShot, 0, 150, 15, 1, 0, 1),
     Row(MadeShot, ThreePT, JumpShot, 350, -150, 38, 3, 1, 1),
     Row(MissedShot, ThreePT, JumpShot, 0, 500, 50, 4, 0, 1)}

\* batches whose attempted-flags do not sum to the made and missed shots: a
\* shot with attempted-flag 0 and an event that is neither made nor missed
FrequencyRows ==
    {Row(MadeShot, TwoPT, JumpShot, 0, 0, 3, 1, 1, 1),
     Row(MissedShot, ThreePT, JumpShot, 0, 270, 27, 2, 0, 0),
     Row(Other, TwoPT, JumpShot, 0, 150, 15, 3, 0, 1),
     Row(MissedShot, TwoPT, Layup, 10, 20, 2, 4, 0, 1)}

\* ScenarioFull and one more record, which no table counts as an attempt
ScenarioOtherEvent ==
    Append(ScenarioFull, Row(Other, TwoPT, JumpShot, 0, 150, 15, 3, 0, 1))

\* ScenarioFull and one more shot, which the attempted-flags do not count
ScenarioUnflagged ==
    Append(ScenarioFull, Row(MissedShot, ThreePT, JumpShot, 0, 270, 27, 2, 0, 0))

InitFrequency ==
    InitWith(BatchesOf(FrequencyRows, MaxBatch)
                \cup {ScenarioFull, ScenarioOtherEvent, ScenarioUnflagged})

SpecFrequency == InitFrequency /\ [][Next]_vars

InitZone == InitWith(BatchesOf(ZoneGridRows, 1) \cup BatchesOf(ZonePairRows, MaxBatch))

SpecZone == InitZone /\ [][Next]_vars

-----------------------------------------------------------------------------
(* What the claims speak of *)

ModeTables == <<shot_types, shot_breakdowns, shot_distances, shot_periods>>

\* the StatRecords a table holds
RecordsOf(t) == {t.val[j] : j \in {h \in 1..Len(t.keys) : t.val[h] # IntZero}}

\* every StatRecord of the chart
StatRecords ==
    {two_points, three_points, total_points}
        \cup {zone[n] : n \in ZoneNames}
        \cup UNION {RecordsOf(ModeTables[j]) : j \in 1..4}

\* the running or last pass has returned to its caller
HasReturned(p) == pass = p /\ pc \in {"ctor", "ready"}

IsShot(r) == r.EVENT_TYPE \in {MadeShot, MissedShot}

\* every record of the batch is a made or missed shot
AllShots(rows) == \A j \in 1..Len(rows) : IsShot(rows[j])

\* ... with attempted-flag 1
AllRegular(rows) ==
    \A j \in 1..Len(rows) : IsShot(rows[j]) /\ rows[j].SHOT_ATTEMPTED_FLAG = 1

RECURSIVE SumOver(_, _)
\* the sum of the field f over the StatRecords of a sequence of values
SumOver(vals, f) ==
    IF vals = <<>> THEN 0
    ELSE (IF Head(vals) = IntZero THEN 0 ELSE Head(vals)[f]) + SumOver(Tail(vals), f)

RECURSIVE FrequencySum(_)
\* the sum of the frequencies of the StatRecords of a sequence of values
FrequencySum(vals) ==
    IF vals = <<>> THEN Zero
    ELSE IF Head(vals) = IntZero THEN FrequencySum(Tail(vals))
    ELSE FracAdd(Head(vals).frequency, FrequencySum(Tail(vals)))

RECURSIVE ZoneSum(_, _)
ZoneSum(names, f) ==
    IF names = {} THEN 0
    ELSE LET n == CHOOSE m \in names : TRUE
         IN zone[n][f] + ZoneSum(names \ {n}, f)

\* made, missed and attempted counted over the zones and the four tables
Counted(f) ==
    ZoneSum(ZoneNames, f) + SumOver(shot_types.val, f) + SumOver(shot_breakdowns.val, f)
        + SumOver(shot_distances.val, f) + SumOver(shot_periods.val, f)

\* the number of rows with label k (under the labelling L) and event ev
CountOf(rows, L(_), k, ev) ==
    Cardinality({j \in 1..Len(rows) : L(rows[j]) = k /\ rows[j].EVENT_TYPE = ev})

-----------------------------------------------------------------------------
(* Claims *)

\* C1: every StatRecord of the chart, in every reachable state, has
\* attempted = made + missed (the points records and the zones included).
C1_AttemptedIsMadePlusMissed ==
    \A r \in StatRecords : r.attempted = r.made + r.missed

\* C2: after every update step, a StatRecord with attempted > 0 has
\* percent = made / attempted exactly, a value between 0 and 1.
C2_PercentIsMadeOverAttempted ==
    \A r \in StatRecords :
        r.attempted > 0 =>
            /\ r.percent = Quot(r.made, r.attempted)
            /\ FracLE(Zero, r.percent) /\ FracLE(r.percent, One)

\* C2 witness: a type pass has just updated a label to 1 made and 1 missed of 2
C2_Witness ==
    /\ pc = "run" /\ pass = "type" /\ i = 2
    /\ Get(shot_types, key).made = 1 /\ Get(shot_types, key).missed = 1
    /\ Get(shot_types, key).percent = <<1, 2>>

\* a loop is about to process a record that is neither a made nor a missed shot
AtOtherEvent ==
    /\ pc = "run" /\ pass \in ModePasses \cup {"zones"} /\ i < Len(df)
    /\ ~IsShot(df[i + 1])

\* C3: in every dimension, zones included, a record whose event type is neither
\* "Made Shot" nor "Missed Shot" increments no made, no missed and no attempted.
C3_OtherEventsAreIgnored ==
    [][AtOtherEvent =>
          /\ Counted("made")' = Counted("made")
          /\ Counted("missed")' = Counted("missed")
          /\ Counted("attempted")' = Counted("attempted")]_vars

\* C4: the update never raises: after a record that leaves its label with no
\* attempt, the pass goes on and percent is the defined value NaN.
C4_UpdateNeverRaises ==
    (pass \in ModePasses /\ i > 0 /\ Get(Table(pass), key).attempted = 0) =>
        /\ fault = NoException
        /\ Get(Table(pass), key).percent = NaN

\* the label the type mode is said to give a record
ClaimedTypeLabel(row) ==
    CASE Contains(row.ACTION_TYPE, <<"Layup">>) -> <<"Layup">>
      [] ~Contains(row.ACTION_TYPE, <<"Layup">>) /\ Contains(row.ACTION_TYPE, <<"Dunk">>)
            -> <<"Dunk">>
      [] OTHER -> row.SHOT_TYPE

\* the band the distance mode is said to give a record
ClaimedBand(row) ==
    LET d == row.SHOT_DISTANCE IN
    CASE 0 <= d /\ d < 5 -> "0 - 5"
      [] 5 <= d /\ d < 10 -> "5 - 10"
      [] 10 <= d /\ d < 15 -> "10 - 15"
      [] 15 <= d /\ d < 20 -> "15 - 20"
      [] 20 <= d /\ d < 25 -> "20 - 25"
      [] 25 <= d /\ d < 30 -> "25 - 30"
      [] d >= 30 -> "30+"
      [] OTHER -> "no band"

ClaimedPeriod(row) == row.PERIOD

\* the StatRecord a label is said to end with: the counts of its records, with
\* frequency = attempted / total attempts
Expected(rows, L(_), k) ==
    LET m == CountOf(rows, L, k, MadeShot)
        x == CountOf(rows, L, k, MissedShot)
    IN [made |-> m, missed |-> x, attempted |-> m + x, percent |-> Quot(m, m + x),
        frequency |-> Quot(m + x, SumCol(rows, "SHOT_ATTEMPTED_FLAG"))]

\* every bucket the batch touches holds the expected StatRecord
TouchedAsExpected(t, rows, L(_)) ==
    \A j \in 1..Len(rows) :
        Has(t, L(rows[j])) /\ Get(t, L(rows[j])) = Expected(rows, L, L(rows[j]))

\* C5: a first distance or period pass over a batch of made and missed shots
\* completes, whichever buckets it touches, and every touched bucket ends with
\* the counts of its records and frequency = attempted / total attempts.
C5_SeededPassCompletes ==
    /\ (pass = "distance" /\ pc # "run" /\ runs["distance"] = 1
            /\ AllShots(df) /\ df # <<>>) =>
          (fault = NoException /\ TouchedAsExpected(shot_distances, df, ClaimedBand))
    /\ (pass = "period" /\ pc # "run" /\ runs["period"] = 1
            /\ AllShots(df) /\ df # <<>>) =>
          (fault = NoException /\ TouchedAsExpected(shot_periods, df, ClaimedPeriod))

\* the labels of a table, as a set
KeySet(t) == {t.keys[j] : j \in 1..Len(t.keys)}

\* C6: after the type pass on a fresh chart, over a batch of made and missed
\* shots with attempted-flag 1, the type table holds exactly the labels of the
\* batch, each with made, missed, attempted = made + missed, percent =
\* made / attempted and frequency = attempted / batch size.
C6_TypeTableCountsTheBatch ==
    (HasReturned("type") /\ runs["type"] = 1 /\ AllRegular(df)) =>
        /\ KeySet(shot_types) = {ClaimedTypeLabel(df[j]) : j \in 1..Len(df)}
        /\ \A k \in KeySet(shot_types) :
              LET m == CountOf(df, ClaimedTypeLabel, k, MadeShot)
                  x == CountOf(df, ClaimedTypeLabel, k, MissedShot)
              IN Get(shot_types, k) =
                    [made |-> m, missed |-> x, attempted |-> m + x,
                     percent |-> Quot(m, m + x), frequency |-> Quot(m + x, Len(df))]

\* C6 witness: 10 two-point jump shots, 6 made and 4 missed, give the one label
\* "2PT Field Goal" with 6, 4, 10, 0.6 and 1.0
C6_Witness ==
    /\ HasReturned("type") /\ runs["type"] = 1 /\ df = ScenarioType
    /\ shot_types.keys = <<TwoPT>>
    /\ Get(shot_types, TwoPT) =
          [made |-> 6, missed |-> 4, attempted |-> 10, percent |-> <<3, 5>>,
           frequency |-> <<1, 1>>]

TotalAttempts == SumCol(df, "SHOT_ATTEMPTED_FLAG")

\* C7 as stated: for every table whose pass has finalized on a batch with total
\* attempts > 0, the frequencies of all labels sum to 1.
C7_FrequenciesSumToOne ==
    /\ \A p \in ModePasses :
          (HasReturned(p) /\ TotalAttempts > 0) => FrequencySum(Table(p).val) = One
    /\ (HasReturned("points") /\ TotalAttempts > 0) =>
          FracAdd(two_points.frequency, three_points.frequency) = One

\* every record is a 2PT or 3PT field goal
AllFieldGoals(rows) == \A j \in 1..Len(rows) : rows[j].SHOT_TYPE \in {TwoPT, ThreePT}

\* C7 amended: when every record of a non-empty batch is a made or missed shot
\* with attempted-flag 1, the frequencies of a type, breakdown, distance or
\* period table sum to 1 once the first pass over that table has finalized (the
\* attempted counts sum to the total attempts), and to n once the n-th pass
\* over it has; the two points frequencies sum to 1 when, in addition, every
\* record is a 2PT or 3PT field goal.
C7_FrequenciesOfShotsSumToOne ==
    /\ \A p \in ModePasses :
          (HasReturned(p) /\ AllRegular(df) /\ df # <<>>) =>
              /\ FrequencySum(Table(p).val) = <<runs[p], 1>>
              /\ SumOver(Table(p).val, "attempted") = runs[p] * TotalAttempts
    /\ (HasReturned("points") /\ AllRegular(df) /\ df # <<>> /\ AllFieldGoals(df)) =>
          FracAdd(two_points.frequency, three_points.frequency) = One

\* C7 witness: a finalized type table of two labels, each with frequency 1/2
C7_Witness ==
    /\ HasReturned("type") /\ runs["type"] = 1 /\ AllRegular(df)
    /\ shot_types.keys = <<TwoPT, ThreePT>>
    /\ Get(shot_types, TwoPT).frequency = <<1, 2>>
    /\ Get(shot_types, ThreePT).frequency = <<1, 2>>

\* C8: on an empty batch no pass raises and every table ends empty.
C8_EmptyBatchIsHarmless ==
    df = <<>> =>
        /\ fault = NoException
        /\ \A j \in 1..4 : RecordsOf(ModeTables[j]) = {}

\* C9: the distance label of an integer distance d is "0 - 5" iff 0 <= d < 5,
\* ..., "25 - 30" iff 25 <= d < 30, and "30+" iff d >= 30.
C9_DistanceBands ==
    (pass = "distance" /\ i > 0) =>
        LET d == df[i].SHOT_DISTANCE IN
        /\ key = "0 - 5" <=> (0 <= d /\ d < 5)
        /\ key = "5 - 10" <=> (5 <= d /\ d < 10)
        /\ key = "10 - 15" <=> (10 <= d /\ d < 15)
        /\ key = "15 - 20" <=> (15 <= d /\ d < 20)
        /\ key = "20 - 25" <=> (20 <= d /\ d < 25)
        /\ key = "25 - 30" <=> (25 <= d /\ d < 30)
        /\ key = "30+" <=> d >= 30

\* C10: the type label is "Layup" if the action contains "Layup", otherwise
\* "Dunk" if it contains "Dunk", otherwise the raw shot type; an action that
\* contains both is labelled "Layup".
C10_TypeLabel ==
    (pass = "type" /\ i > 0) =>
        LET a == df[i].ACTION_TYPE IN
        /\ Contains(a, <<"Layup">>) => key = <<"Layup">>
        /\ (~Contains(a, <<"Layup">>) /\ Contains(a, <<"Dunk">>)) => key = <<"Dunk">>
        /\ (~Contains(a, <<"Layup">>) /\ ~Contains(a, <<"Dunk">>)) => key = df[i].SHOT_TYPE

\* C10 witness: the type pass has labelled an action that contains both words
C10_Witness ==
    /\ pass = "type" /\ i = 1
    /\ Contains(df[1].ACTION_TYPE, <<"Dunk">>) /\ Contains(df[1].ACTION_TYPE, <<"Layup">>)
    /\ key = <<"Layup">>

\* "Mid-Range" for a 2PT field goal, "3PT" for a 3PT field goal
ByShotType(st) == IF st = TwoPT THEN "Mid-Range" ELSE "3PT"

IsFieldGoal(st) == st \in {TwoPT, ThreePT}

\* the rules of the breakdown mode in their stated order, each with whether it
\* matches the record and the label it gives; the last one always matches
ClaimedBreakdownRules(row) ==
    LET a == row.ACTION_TYPE
        st == row.SHOT_TYPE
    IN <<
        <<a = JumpShot /\ IsFieldGoal(st), <<"Jump", "Shot", ByShotType(st)>> >>,
        <<Contains(a, <<"Dunk">>), <<"Dunk">> >>,
        <<Contains(a, <<"Floating">>), <<"Floater">> >>,
        <<Contains(a, <<"Hook", "Shot">>), <<"Hook", "Shot">> >>,
        <<Contains(a, <<"Fadeaway">>) /\ IsFieldGoal(st), <<"Fadeaway", ByShotType(st)>> >>,
        <<(Contains(a, <<"Pullup">>) \/ Contains(a, <<"Pull-Up">>)) /\ IsFieldGoal(st),
          <<"Pullup", ByShotType(st)>> >>,
        <<Contains(a, <<"Step", "Back">>) /\ IsFieldGoal(st),
          <<"Step", "Back", ByShotType(st)>> >>,
        <<Contains(a, <<"Layup">>), <<"Layup">> >>,
        <<TRUE, a>>
    >>

\* the label of the first rule that matches
ClaimedBreakdownLabel(row) ==
    LET rules == ClaimedBreakdownRules(row)
        first == CHOOSE j \in 1..Len(rules) :
                    rules[j][1] /\ \A h \in 1..(j - 1) : ~rules[h][1]
    IN rules[first][2]

\* C11: the breakdown label is the one of the first matching rule in the order
\* exact "Jump Shot" (by shot type), Dunk, Floating, Hook Shot, Fadeaway (by
\* shot type), Pullup or Pull-Up (by shot type), Step Back (by shot type),
\* Layup, else the raw action; an action with both "Dunk" and "Layup" is
\* labelled "Dunk", and a rule by shot type is skipped for any other shot type.
C11_BreakdownLabel ==
    (pass = "breakdown" /\ i > 0) =>
        /\ key = ClaimedBreakdownLabel(df[i])
        /\ (Contains(df[i].ACTION_TYPE, <<"Dunk">>) /\ Contains(df[i].ACTION_TYPE, <<"Layup">>))
              => key = <<"Dunk">>

\* C11 witness: the breakdown pass has labelled an action that contains both
\* words, with the Layup word first, "Dunk"
C11_Witness ==
    /\ pass = "breakdown" /\ i = 1
    /\ df[1].ACTION_TYPE = <<"Putback", "Layup", "Dunk">>
    /\ key = <<"Dunk">>

\* the zones loop is about to process a record
AtZoneRow == pc = "run" /\ pass = "zones" /\ i < Len(df)

\* the accumulators that the step changes
ZonesChanged == {n \in ZoneNames : zone'[n] # zone[n]}

\* the step counts one more attempt in the accumulator n and in no other
CountedOnlyIn(n) ==
    /\ zone'[n].attempted = zone[n].attempted + 1
    /\ ZonesChanged = {n}

\* strictly inside the outer-paint rectangle: -80 < x < 80 and -47.5 < y < 142.5
InsideOuterPaint(x, y) ==
    /\ -80 < x /\ x < 80
    /\ -95 < 2 * y /\ 2 * y < 285

\* C12: every coordinate strictly inside the outer-paint rectangle,
\* -80 < x < 80 and -47.5 < y < 142.5, is counted in the Paint zone and in no
\* other zone.
C12_OuterPaintIsPaint ==
    [][(AtZoneRow /\ InsideOuterPaint(df[i + 1].LOC_X, df[i + 1].LOC_Y))
          => CountedOnlyIn("paint")]_vars

\* some branch of the zones chain has a condition that (x, y) meets
InSomeRegion(x, y) == \E n \in ZoneNames : ZoneTest(n, x, y)

\* C13: zone processing is total: for any (x, y), x = 0 included, the record
\* either increments exactly one of the fourteen accumulators or, when no
\* region matches, leaves all fourteen unchanged; it never raises (the
\* division of the branch it takes is by a positive count) and there is no
\* default bucket.
C13_ZonesAreTotal ==
    [][AtZoneRow =>
          LET x == df[i + 1].LOC_X
              y == df[i + 1].LOC_Y
          IN /\ pc' # "fault" /\ fault' = NoException
             /\ DOMAIN zone' = ZoneNames
             /\ \A n \in ZonesChanged : zone'[n].attempted > 0 /\ zone'[n].percent[2] # 0
             /\ IF InSomeRegion(x, y)
                THEN \E n \in ZoneNames : CountedOnlyIn(n)
                ELSE zone' = zone]_vars

\* C13 witness: the zones pass has counted a record with x = 0 through the arc
\* test and then dropped a record that no region holds
C13_Witness ==
    /\ pc = "run" /\ pass = "zones" /\ i = 2 /\ runs["zones"] = 1
    /\ df[1].LOC_X = 0 /\ ZoneOf(df[1].LOC_X, df[1].LOC_Y) = "high_post"
    /\ ~InSomeRegion(df[2].LOC_X, df[2].LOC_Y)
    /\ zone["high_post"].attempted = 1
    /\ ZoneSum(ZoneNames, "attempted") = 1

\* the earliest branch, in the stated order, whose condition (x, y) meets
EarliestRegion(x, y) ==
    ZoneOrder[CHOOSE j \in 1..Len(ZoneOrder) :
                 /\ ZoneTest(ZoneOrder[j], x, y)
                 /\ \A h \in 1..(j - 1) : ~ZoneTest(ZoneOrder[h], x, y)]

\* the records the zones passes have scanned so far
ZoneScanned ==
    IF runs["zones"] = 0 THEN 0
    ELSE (runs["zones"] - 1) * Len(df) + (IF pass = "zones" THEN i ELSE Len(df))

\* no more attempts are counted in the zones than records were scanned
ZoneCountsAreBounded == ZoneSum(ZoneNames, "attempted") <= ZoneScanned

\* C20: zone classification is first-match-wins over the order right corner-3,
\* left corner-3, paint, right block, left block, high post, right elbow, left
\* elbow, right wing-3, left wing-3, top-of-key-3, straight deep-3, right
\* deep-3, left deep-3: a coordinate that meets the conditions of several zones
\* increments only the earliest of them, each record increments at most one
\* accumulator, and the attempted counts of the fourteen zones never sum to
\* more than the number of records scanned.
C20_FirstMatchWins ==
    /\ [][AtZoneRow =>
            LET x == df[i + 1].LOC_X
                y == df[i + 1].LOC_Y
            IN /\ Cardinality(ZonesChanged) <= 1
               /\ InSomeRegion(x, y) => CountedOnlyIn(EarliestRegion(x, y))]_vars
    /\ []ZoneCountsAreBounded

\* C20 witness: the zones pass has counted (0, 0), which meets the conditions
\* of the paint and of the left block, in the paint alone
C20_Witness ==
    /\ pc = "run" /\ pass = "zones" /\ i = 1 /\ runs["zones"] = 1
    /\ ZoneTest("paint", df[1].LOC_X, df[1].LOC_Y)
    /\ ZoneTest("left_block", df[1].LOC_X, df[1].LOC_Y)
    /\ zone["paint"].attempted = 1 /\ zone["left_block"].attempted = 0
    /\ ZoneSum(ZoneNames, "attempted") = 1

\* the records of the batch whose made-flag is v, in batch order
WithMadeFlag(rows, v) == SelectSeq(rows, LAMBDA r : r.SHOT_MADE_FLAG = v)

\* the points pass has run to its end or to an exception
PointsPassDone == pass = "points" /\ pc # "run"

\* C14: after the points pass, the recorded made subset holds exactly the
\* records whose made-flag is 1 and the recorded missed subset exactly the
\* records whose made-flag is 0.
C14_SubsetsFollowTheMadeFlag ==
    PointsPassDone =>
        /\ shots_made = [rows |-> WithMadeFlag(df, 1)]
        /\ shots_missed = [rows |-> WithMadeFlag(df, 0)]

\* the StatRecord fields the points pass is said to give the records of shot
\* type st: the sums of their flags, zero when there are none
ClaimedPoints(rec, st) ==
    /\ rec.made = SumCol(OfShotType(df, st), "SHOT_MADE_FLAG")
    /\ rec.attempted = SumCol(OfShotType(df, st), "SHOT_ATTEMPTED_FLAG")

\* C15: for any non-empty batch, one of only 2PT or only 3PT records included,
\* the points pass completes, two_points counts exactly the "2PT Field Goal"
\* records and three_points exactly the "3PT Field Goal" records (made = sum of
\* made-flags, attempted = sum of attempted-flags), and the bucket of an absent
\* shot type is left at zero.
C15_PointsCountByShotType ==
    (PointsPassDone /\ df # <<>>) =>
        /\ fault = NoException
        /\ ClaimedPoints(two_points, TwoPT)
        /\ ClaimedPoints(three_points, ThreePT)
        /\ ~TypePresent(df, TwoPT) => two_points = ZeroRecord
        /\ ~TypePresent(df, ThreePT) => three_points = ZeroRecord

\* C16: for the type, breakdown, distance and period passes, the denominator of
\* every label's frequency is the sum of the attempted-flag over all records of
\* the batch, whichever records matched which label and whatever their event
\* type.
C16_DenominatorIsAllAttempts ==
    \A p \in ModePasses :
        HasReturned(p) =>
            \A r \in RecordsOf(Table(p)) : r.frequency = Quot(r.attempted, TotalAttempts)

\* C16 witness: a distance pass has finalized a batch of 8 attempted-flags of
\* which the table counts 7 attempts, and the label "0 - 5" has frequency 1/8
C16_Witness ==
    /\ HasReturned("distance") /\ runs["distance"] = 1
    /\ df = ScenarioOtherEvent
    /\ TotalAttempts = 8 /\ SumOver(shot_distances.val, "attempted") = 7
    /\ Get(shot_distances, "0 - 5").frequency = <<1, 8>>

\* C17: every requested dimension ends finalized: after the zones pass on a
\* batch with total attempts > 0, each of the fourteen zone accumulators has
\* frequency = attempted / total attempts, as the tables of the other
\* dimensions do.
C17_ZonesAreFinalized ==
    (HasReturned("zones") /\ TotalAttempts > 0) =>
        \A n \in ZoneNames : zone[n].frequency = Quot(zone[n].attempted, TotalAttempts)

RECURSIVE ModeScan(_, _, _)
\* the table t after the loop of pass p over rows, when no row raises
ModeScan(t, rows, p) ==
    IF rows = <<>> THEN t
    ELSE ModeScan(ModeUpdate(t, ModeKey(p, Head(rows)), Head(rows).EVENT_TYPE),
                  Tail(rows), p)

\* the table the constructor sets up for pass p
FreshTable(p) ==
    CASE p = "type" -> EmptyTable
      [] p = "breakdown" -> EmptyTable
      [] p = "distance" -> FromKeys(Distances)
      [] OTHER -> FromKeys(Periods)

\* the table of pass p after one run over the batch on a fresh table
TableAfterOnce(p) ==
    process_column_frequency(ModeScan(FreshTable(p), df, p), TotalAttempts)

RECURSIVE ZoneScan(_, _)
\* the accumulators z after the zones loop over rows
ZoneScan(z, rows) ==
    IF rows = <<>> THEN z ELSE ZoneScan(ZoneRow(z, Head(rows)), Tail(rows))

\* C18: each request works on a fresh table: running the same pass (type,
\* breakdown, distance, period or zones) twice on the same ShotChart with the
\* same batch, once by a constructor flag and once by process_shot_data,
\* leaves the table equal to the table after running it once.
C18_SecondRunEqualsFirst ==
    /\ \A p \in ModePasses :
          (HasReturned(p) /\ runs[p] = 2) => Table(p) = TableAfterOnce(p)
    /\ (HasReturned("zones") /\ runs["zones"] = 2) =>
          zone = ZoneScan([n \in ZoneNames |-> ZeroRecord], df)

\* the name of the table that pass p populates
OwnTable(p) ==
    CASE p = "type" -> "shot_types"
      [] p = "breakdown" -> "shot_breakdowns"
      [] p = "distance" -> "shot_distances"
      [] OTHER -> "shot_periods"

\* C19: process_shots_by_breakdown returns the breakdown table it has just
\* populated, as process_shots_by_type, process_shots_by_distance and
\* process_shots_by_period return their own tables.
C19_PassReturnsItsOwnTable ==
    \A p \in ModePasses : HasReturned(p) => ret = OwnTable(p)

\* the zones pass has scanned the one record of its batch, on a fresh chart
ScannedOne == pass = "zones" /\ i = 1 /\ Len(df) = 1 /\ runs["zones"] = 1

\* C21: the thresholds the zone tests and the arc test compare against equal
\* the listed constants exactly: free-throw line 142.5, frontcourt boundary
\* -47.5, halfcourt boundary 422.5 and arc radius (238-90)/2 +
\* 440^2/(8*(238-90)), as well as 90, 220, 80, 60, 250, 300, 100 and 125; so a
\* shot at (0, y) with 142.5 < y below the radius is inside the arc (high
\* post), and a shot with 300 < x < 422.5 and -250 < y < -100 passes the test
\* of straight deep-3.
C21_ThresholdsAreExact ==
    /\ 2 * FREE_THROW_LINE = 285
    /\ 2 * FRONTCOURT_BOUNDARY = -95
    /\ 2 * HALFCOURT_BOUNDARY = 845
    /\ RADIUS_3ARC * (8 * (238 - 90)) = 4 * (238 - 90) * (238 - 90) + 440 * 440
    /\ CORNER3_Y = 90 /\ CORNER3_X = 220 /\ OUTER_PAINT = 80 /\ INNER_PAINT = 60
    /\ SIDE_BOUNDARY = 250 /\ DEEP3_Y = 300 /\ DEEP3_X = 100 /\ RIGHT_WING_3 = 125
    /\ ScannedOne =>
          LET x == df[1].LOC_X
              y == df[1].LOC_Y
          IN /\ (x = 0 /\ 2 * y > 285
                    /\ y * (8 * (238 - 90)) < 4 * (238 - 90) * (238 - 90) + 440 * 440)
                  => zone["high_post"].attempted = 1
             /\ (300 < x /\ 2 * x < 845 /\ -250 < y /\ y < -100)
                  => zone["straight_deep_3"].attempted = 1

\* on one of the lines that bound the zones (no point of integer coordinates
\* lies on the arc, whose radius is 8788/37, or on the rays of 22 and 158
\* degrees, the hoop apart)
OnZoneBoundary(x, y) ==
    \/ Abs(x) \in {80, 100, 125, 220, 250, 300}
    \/ y \in {-250, -100, 80, 90, 100, 219, 250, 300}
    \/ (x = 0 /\ y = 0)

\* strictly inside the court rectangle: -250 < x < 250, -47.5 < y < 422.5
InsideCourt(x, y) == -250 < x /\ x < 250 /\ -95 < 2 * y /\ 2 * y < 845

\* C22: the region tests are exhaustive over the half-court: every coordinate
\* strictly inside the court rectangle that lies on no zone boundary is counted
\* in one of the fourteen zones; a shot with -100 < x < 100 and 300 < y < 422.5
\* is counted as straight deep-3.
C22_ZonesCoverTheCourt ==
    [][AtZoneRow =>
          LET x == df[i + 1].LOC_X
              y == df[i + 1].LOC_Y
          IN /\ (InsideCourt(x, y) /\ ~OnZoneBoundary(x, y)) => ZonesChanged # {}
             /\ (-100 < x /\ x < 100 /\ 300 < y /\ 2 * y < 845)
                  => CountedOnlyIn("straight_deep_3")]_vars

\* the direction of the line through the hoop and (x, y), taken in the upper
\* half-plane: its angle from the positive x-axis lies in [0, 180)
UpperDirection(x, y) == IF y < 0 \/ (y = 0 /\ x < 0) THEN <<-x, -y>> ELSE <<x, y>>

\* the angle of (x, y) is at least deg degrees, for deg 22 or 158 and x # 0
ClaimedAngleGE(x, y, deg) ==
    LET u == UpperDirection(x, y) IN
    IF deg = 22 THEN u[2] * TanDen >= u[1] * TanNum
    ELSE u[1] < 0 /\ u[2] * TanDen <= (-u[1]) * TanNum

\* the angle of (x, y) is at most deg degrees, for deg 22 or 158 and x # 0
ClaimedAngleLE(x, y, deg) ==
    LET u == UpperDirection(x, y) IN
    IF deg = 22 THEN u[1] > 0 /\ u[2] * TanDen <= u[1] * TanNum
    ELSE u[1] >= 0 \/ u[2] * TanDen >= (-u[1]) * TanNum

\* start <= angle <= end and sqrt(x^2 + y^2) < radius, the angle being 90 on
\* the centerline
ClaimedInsideArc(x, y, start, end) ==
    /\ IF x = 0 THEN start <= 90 /\ 90 <= end
       ELSE ClaimedAngleGE(x, y, start) /\ ClaimedAngleLE(x, y, end)
    /\ x * x + y * y < RADIUS_3ARC * RADIUS_3ARC

\* the pairs of angles the zone tests pass
ArcCalls == {<<22, 158>>, <<158, 22>>}

\* C23: the arc test computes an angle in [0, 180) that is exactly 90 when
\* x = 0 and is true iff start <= angle <= end and sqrt(x^2 + y^2) is below the
\* radius of CourtDimensions; so for x = 0 it is true iff start <= 90 <= end
\* and |y| < radius, and for start > end it is false for every point.
C23_InsideArc ==
    (pass = "zones" /\ i > 0) =>
        LET x == df[i].LOC_X
            y == df[i].LOC_Y
        IN \A c \in ArcCalls :
              /\ is_shot_inside_3pt_arc(x, y, c[1], c[2]) <=> ClaimedInsideArc(x, y, c[1], c[2])
              /\ x = 0 => (is_shot_inside_3pt_arc(x, y, c[1], c[2])
                              <=> (c[1] <= 90 /\ 90 <= c[2] /\ Abs(y) < RADIUS_3ARC))
              /\ c[1] > c[2] => ~is_shot_inside_3pt_arc(x, y, c[1], c[2])

\* C23 witness: the zones pass has counted a shot on the centerline, above the
\* free-throw line and inside the arc, as high post
C23_Witness ==
    /\ ScannedOne
    /\ df[1].LOC_X = 0 /\ df[1].LOC_Y > FREE_THROW_LINE
    /\ is_shot_inside_3pt_arc(df[1].LOC_X, df[1].LOC_Y, 22, 158)
    /\ zone["high_post"].attempted = 1

\* what each dimension holds
Dimension(p) ==
    CASE p = "points" -> <<shots_missed, shots_made, two_points, three_points, total_points>>
      [] p = "zones" -> zone
      [] p = "type" -> shot_types
      [] p = "breakdown" -> shot_breakdowns
      [] p = "distance" -> shot_distances
      [] OTHER -> shot_periods

\* C24: a processing pass for one dimension changes only that dimension's
\* table: while the pass of one dimension runs, the tables of the five other
\* dimensions stay as they are, and outside a pass nothing changes.
C24_PassChangesOnlyItsTable ==
    [][/\ pc = "run" => \A p \in PassNames \ {pass} : Dimension(p)' = Dimension(p)
       /\ pc # "run" => chart' = chart]_vars

\* C24 witness: a type pass has finalized its table on a chart whose zones the
\* constructor had filled, and the zones and the breakdown table are as the
\* type pass found them
C24_Witness ==
    /\ HasReturned("type") /\ runs["type"] = 1 /\ runs["zones"] = 1
    /\ Len(shot_types.keys) > 0
    /\ ZoneSum(ZoneNames, "attempted") = Len(df)
    /\ shot_breakdowns = EmptyTable

\* the frequency a label holds in the table t, "none" when it holds no record
FrequencyAt(t, k) ==
    IF Has(t, k) /\ Get(t, k) # IntZero THEN Get(t, k).frequency ELSE "none"

\* a step of a scanning request: it takes the next record of the batch, and
\* the frequency of every label that holds a record stays as it is
ScanningStep ==
    (pc = "run" /\ pass \in ModePasses /\ i < Len(df)) =>
        /\ i' = i + 1
        /\ key' = ModeKey(pass, df[i + 1])
        /\ \A k \in KeySet(Table(pass)) :
              FrequencyAt(Table(pass), k) # "none"
                  => FrequencyAt(Table(pass)', k) = FrequencyAt(Table(pass), k)

\* the step that finalizes: taken after the last record, and once
FinalizingStep ==
    (pc = "run" /\ pass \in ModePasses /\ i = Len(df)) => pc' # "run"

\* a request that has ended has scanned the whole batch without an exception
\* and has given every label frequency = attempted / total attempts
RequestEndsFinalized ==
    (pass \in ModePasses /\ pc # "run") =>
        /\ fault = NoException
        /\ i = Len(df)
        /\ \A j \in 1..Len(Table(pass).keys) :
              Table(pass).val[j] # IntZero =>
                  Table(pass).val[j].frequency
                      = Quot(Table(pass).val[j].attempted, TotalAttempts)

\* C25: each type, breakdown, distance or period request follows Idle ->
\* Scanning -> Finalized: it visits every record exactly once in batch order,
\* writes no frequency while scanning, and invokes finalize_frequency exactly
\* once, only after the last record, with the batch's total attempted count.
C25_RequestsScanThenFinalize ==
    /\ [][ScanningStep /\ FinalizingStep]_vars
    /\ []RequestEndsFinalized

\* the label k holds a StatRecord in the table t
HoldsRecord(t, k) == Has(t, k) /\ Get(t, k) # IntZero

\* C26: the zero-sentinel initialization never resets a label that already
\* holds a StatRecord: throughout any pass and across passes, a label that
\* holds a record keeps one, and its made, missed and attempted never
\* decrease; a record is initialized only for a label that is absent or still
\* holds the pre-seeded integer 0.
C26_RecordsAreNeverReset ==
    [][\A p \in ModePasses :
          \A k \in KeySet(Table(p)) :
              HoldsRecord(Table(p), k) =>
                  /\ HoldsRecord(Table(p)', k)
                  /\ Get(Table(p)', k).made >= Get(Table(p), k).made
                  /\ Get(Table(p)', k).missed >= Get(Table(p), k).missed
                  /\ Get(Table(p)', k).attempted >= Get(Table(p), k).attempted]_vars

\* C26 witness: a second type pass has met the label of the first pass again
\* and has counted on from its record
C26_Witness ==
    /\ pass = "type" /\ runs["type"] = 2 /\ i = 1 /\ Len(df) = 1
    /\ HoldsRecord(shot_types, key)
    /\ Get(shot_types, key).attempted = 2

\* the zone on the other side of the centerline
Counterpart(n) ==
    CASE n = "right_corner_3" -> "left_corner_3"
      [] n = "left_corner_3" -> "right_corner_3"
      [] n = "right_block" -> "left_block"
      [] n = "left_block" -> "right_block"
      [] n = "right_elbow" -> "left_elbow"
      [] n = "left_elbow" -> "right_elbow"
      [] n = "right_wing_3" -> "left_wing_3"
      [] n = "left_wing_3" -> "right_wing_3"
      [] n = "right_deep_3" -> "left_deep_3"
      [] n = "left_deep_3" -> "right_deep_3"
      [] OTHER -> n

\* C27: zone classification is mirror-symmetric about the centerline: for
\* every (x, y) with x # 0, the zone that counts (x, y) is the left/right
\* counterpart of the zone of (-x, y); paint, high post, top-of-key-3,
\* straight deep-3 and unclassified map to themselves.
C27_ZonesAreMirrored ==
    [][(AtZoneRow /\ df[i + 1].LOC_X # 0) =>
          LET mirrored == ZoneOf(-df[i + 1].LOC_X, df[i + 1].LOC_Y) IN
          IF mirrored = "none" THEN ZonesChanged = {}
          ELSE CountedOnlyIn(Counterpart(mirrored))]_vars

\* every integer coordinate within the widest limits the region tests use
ReachXs == -423 .. 423
ReachYs == -251 .. 423

\* a made shot taken at (x, y)
ShotAt(x, y) == [EVENT_TYPE |-> <<"Made", "Shot">>, LOC_X |-> x, LOC_Y |-> y]

\* C28: each of the fourteen zone accumulators is reachable: for every zone,
\* right deep-3 included, there is a coordinate (x, y) whose record increments
\* that zone's accumulator.
C28_EveryZoneIsReachable ==
    \A n \in ZoneNames :
        \E x \in ReachXs : \E y \in ReachYs :
            ZoneRow(zone, ShotAt(x, y))[n].attempted = zone[n].attempted + 1

=============================================================================
